---------------------------- MODULE Spec2Model ----------------------------
(***************************************************************************)
(* Model of resize-from-4k-to-1024.py: a one-shot batch resizer of the PNG *)
(* textures of one directory.  The state is the directory on disk, the     *)
(* local variables of resize_textures(), what was printed, and the exit    *)
(* status of the process.  One action per step of resize_textures() and of *)
(* the __main__ guard around it.                                           *)
(***************************************************************************)
EXTENDS Integers, Sequences, FiniteSets, TLC

(***************************************************************************)
(* Program constants.                                                      *)
(***************************************************************************)
MAX_SIZE == 1024

\* files[:5] : the number of files the 4K check looks at
SampleSize == 5

\* img.size[0] >= 2048 or img.size[1] >= 2048
HiRes == 2048

\* bits of the significand of a Python float (IEEE 754 binary64)
MantBits == 53

(***************************************************************************)
(* Bounds of the model.                                                    *)
(***************************************************************************)
\* longest directory built from every kind of entry
MaxFiles == 2

\* longest directory built from LongKinds (longer than the 4K check's sample)
MaxLong == 6

\* most faults of the environment (KeyboardInterrupt, a failing save()) in
\* one behaviour
MaxFaults == 1

\* SizeDims holds every dimension from just below MAX_SIZE up to MaxDim
MaxDim == 1130

(***************************************************************************)
(* Strings the program inspects are sequences of characters, so that       *)
(* str.lower() and str.endswith() are computed, not assumed.               *)
(***************************************************************************)
LowerChar(c) ==
  CASE c = "Y" -> "y"
    [] c = "N" -> "n"
    [] c = "E" -> "e"
    [] c = "S" -> "s"
    [] c = "P" -> "p"
    [] c = "G" -> "g"
    [] c = "T" -> "t"
    [] c = "X" -> "x"
    [] OTHER -> c

\* str.lower()
Lower(s) == [j \in DOMAIN s |-> LowerChar(s[j])]

\* str.endswith(suf)
EndsWith(s, suf) ==
  /\ Len(s) >= Len(suf)
  /\ SubSeq(s, Len(s) - Len(suf) + 1, Len(s)) = suf

DotPng == <<".", "p", "n", "g">>

\* f.lower().endswith('.png')
IsPng(name) == EndsWith(Lower(name), DotPng)

Min(a, b) == IF a <= b THEN a ELSE b
Max(a, b) == IF a >= b THEN a ELSE b

(***************************************************************************)
(* The target size, lines 78-79:                                           *)
(*   ratio    = min(MAX_SIZE / w, MAX_SIZE / h)                            *)
(*   new_size = (int(w * ratio), int(h * ratio))                           *)
(* in binary64 arithmetic.  Division is monotone, so ratio is the float    *)
(* nearest to MAX_SIZE / big with big = max(w, h).  MAX_SIZE is a power of *)
(* two, so that float is (2^N + e) / big * 2^(10 - N), where 2^N / big     *)
(* lies in [2^52, 2^53) and e, the rounding error in units of 1/big of the *)
(* last place, is RatioErr(big).  The product d * ratio is rounded to the  *)
(* nearest float once more and int() truncates it.  The truncation differs *)
(* from floor(d * MAX_SIZE / big) only when d * MAX_SIZE / big is an       *)
(* integer k, ratio was rounded down, and the product k * (1 + e / 2^N) is *)
(* not rounded back up to k.                                               *)
(***************************************************************************)
RECURSIVE Log2(_)
\* floor(log2(n)) for n >= 1
Log2(n) == IF n < 2 THEN 0 ELSE 1 + Log2(n \div 2)

RECURSIVE Pow2(_)
Pow2(n) == IF n = 0 THEN 1 ELSE 2 * Pow2(n - 1)

RECURSIVE Pow2Mod(_, _)
\* 2^n mod m
Pow2Mod(n, m) == IF n = 0 THEN 1 % m ELSE (2 * Pow2Mod(n - 1, m)) % m

\* signed rounding error of float(MAX_SIZE / big): 0 when exact, negative
\* when the quotient was rounded down (round to nearest; no tie can occur
\* for an integer big that is not a power of two)
RatioErr(big) ==
  LET p   == Log2(big)
      rem == Pow2Mod(MantBits + p, big)
  IN  IF big = Pow2(p) THEN 0
      ELSE IF 2 * rem < big THEN 0 - rem ELSE big - rem

\* Scale with the product rounded up instead of truncated
ScaleCeil(d, big) == (d * MAX_SIZE + big - 1) \div big

\* int(d * ratio) with ratio = float(MAX_SIZE / big)
Scale(d, big) ==
  LET x == d * MAX_SIZE
      k == x \div big
      e == RatioErr(big)
      p == Log2(big)
      j == Log2(k)
      \* half the gap between k and the float below it, scaled by 2^N;
      \* a tie rounds to k, whose significand is even
      half == IF k = Pow2(j) THEN Pow2(p + j - 1) ELSE Pow2(p + j)
  IN  IF x % big # 0 THEN k
      ELSE IF e >= 0 THEN k
      ELSE IF k * (0 - e) > half THEN k - 1 ELSE k

\* lines 78-79 with max() in place of min(): the smaller side becomes MAX_SIZE
NewSizeMax(w, h) ==
  LET small == Min(w, h)
  IN  <<Scale(w, small), Scale(h, small)>>

\* lines 78-79: new_size
NewSize(w, h) ==
  LET big == Max(w, h)
  IN  <<Scale(w, big), Scale(h, big)>>

\* line 68 with >= in place of >
NeedsResizeGe(w, h) == w >= MAX_SIZE \/ h >= MAX_SIZE

\* line 68: needs_resize
NeedsResize(w, h) == w > MAX_SIZE \/ h > MAX_SIZE

\* line 39: the test of the 4K check
Is4K(w, h) == w >= HiRes \/ h >= HiRes

\* line 35 without the slice
SampleEvery(fs) == fs

\* line 35: files[:5], the files the 4K check looks at
Sample(fs) == SubSeq(fs, 1, Min(SampleSize, Len(fs)))

\* line 51 with the case left unfolded: response != 'y'
DeclinesExact(r) == r # <<"y">>

\* line 51: response.lower() != 'y', the responses that end the run
Declines(r) == Lower(r) # <<"y">>

(***************************************************************************)
(* Directory entries: a name, whether Image.open() decodes the file, and   *)
(* the decoded size (0x0 when it does not decode).                         *)
(***************************************************************************)
Entry(name, ok, w, h) == [name |-> name, ok |-> ok, w |-> w, h |-> h]

PngName == <<"t", ".", "p", "n", "g">>
UpperName == <<"t", ".", "P", "N", "G">>
TxtName == <<"t", ".", "t", "x", "t">>

Small == Entry(PngName, TRUE, 800, 600)
Edge == Entry(UpperName, TRUE, MAX_SIZE, MAX_SIZE)
FourK == Entry(PngName, TRUE, 4096, 2048)
Mid == Entry(PngName, TRUE, 1122, 1122)
Thin == Entry(PngName, TRUE, 1025, 1)
TwoK == Entry(PngName, TRUE, HiRes, MAX_SIZE)
Corrupt == Entry(PngName, FALSE, 0, 0)
Notes == Entry(TxtName, FALSE, 0, 0)

Kinds == {Small, Edge, FourK, Mid, Thin, Corrupt, Notes}
LongKinds == {Small, TwoK}

SeqsUpTo(S, lo, hi) == UNION {[1..n -> S] : n \in lo..hi}

Dirs == SeqsUpTo(Kinds, 0, MaxFiles) \cup SeqsUpTo(LongKinds, SampleSize + 1, MaxLong)

\* the sizes of the single image of SpecSize's directories
SizeDims ==
  {1, 2, 3, 511, 512, 513, 600, 800, 2047, HiRes, 4096, 5000}
    \cup ((MAX_SIZE - 4)..MaxDim)

SizeDirs == {<<Entry(PngName, TRUE, w, h)>> : w \in SizeDims, h \in SizeDims}

Responses == {<<"y">>, <<"Y">>, <<"n">>, <<"N">>, <<>>, <<"y", "e", "s">>}

NoSize == <<0, 0>>

VARIABLES
  pathKind,     \* SOURCE_DIR on disk: "missing", "file" or "dir"
  disk,         \* the entries of SOURCE_DIR (= TARGET_DIR), in listing order
  disk0,        \* disk as it was when the current run started
  run,          \* 1 for the first run of the script, 2 for the run after it
  prevClean,    \* the previous run printed its summary with Errors: 0
  faults,       \* faults of the environment so far, over both runs
  pc,           \* position in resize_textures()
  exitCode,     \* exit status of the process, -1 while it runs
  files,        \* line 23: indices into disk of the names that end in .png
  i,            \* line 35: position of the 4K check in files[:5]
  has_4k,       \* line 34
  response,     \* line 50
  k,            \* line 58: number of files the main loop has finished
  resized,      \* line 54
  skipped,      \* line 55
  errors,       \* line 56
  new_size,     \* line 79
  out,          \* what has been printed
  log,          \* per file of the main loop: <<index in files, outcome>>
  sampled,      \* the positions whose Image.open() succeeded in the 4K check
  opens,        \* calls of Image.open()
  writes,       \* files written by save()
  prompts,      \* calls of input()
  interrupted,  \* a KeyboardInterrupt was raised in this run
  encodeErrors  \* calls of save() that failed

vars == <<pathKind, disk, disk0, run, prevClean, faults, pc, exitCode, files, i, has_4k,
          response, k, resized, skipped, errors, new_size, out, log, sampled,
          opens, writes, prompts, interrupted, encodeErrors>>

world == <<pathKind, run, prevClean>>
locals == <<files, i, has_4k, response, k, new_size>>
tally == <<resized, skipped, errors>>
history == <<log, sampled, opens, writes, prompts, interrupted, encodeErrors>>

\* the state of a process that has just been started
Fresh ==
  /\ pc = "start"
  /\ exitCode = -1
  /\ files = <<>>
  /\ i = 1
  /\ has_4k = FALSE
  /\ response = <<>>
  /\ k = 0
  /\ resized = 0
  /\ skipped = 0
  /\ errors = 0
  /\ new_size = NoSize
  /\ out = {}
  /\ log = <<>>
  /\ sampled = {}
  /\ opens = 0
  /\ writes = 0
  /\ prompts = 0
  /\ interrupted = FALSE
  /\ encodeErrors = 0

Init ==
  /\ pathKind \in {"missing", "file", "dir"}
  /\ disk \in (IF pathKind = "dir" THEN Dirs ELSE {<<>>})
  /\ disk0 = disk
  /\ run = 1
  /\ prevClean = FALSE
  /\ faults = 0
  /\ Fresh

(***************************************************************************)
(* Lines 17-31: the source directory and the list of PNG files.            *)
(***************************************************************************)
\* line 23: the positions in the listing of the names that end in .png
PngFiles(d) ==
  SelectSeq([j \in 1..Len(d) |-> j], LAMBDA j : IsPng(d[j].name))

\* sys.exit(code) after printing msgs
Exit(code, msgs) ==
  /\ pc' = "exit"
  /\ exitCode' = code
  /\ out' = out \cup msgs

\* lines 17-20: os.path.exists() is false
NotFound ==
  /\ UNCHANGED faults
  /\ pc = "start"
  /\ pathKind = "missing"
  /\ Exit(1, {"notfound", "hint"})
  /\ UNCHANGED <<world, disk, disk0, locals, tally, history>>

\* line 23: the path exists but is a file, os.listdir() raises
\* NotADirectoryError, which __main__ does not catch: traceback, status 1
ListFails ==
  /\ UNCHANGED faults
  /\ pc = "start"
  /\ pathKind = "file"
  /\ Exit(1, {"traceback"})
  /\ UNCHANGED <<world, disk, disk0, locals, tally, history>>

\* lines 25-27
NoFiles ==
  /\ UNCHANGED faults
  /\ pc = "start"
  /\ pathKind = "dir"
  /\ PngFiles(disk) = <<>>
  /\ Exit(1, {"nofiles"})
  /\ UNCHANGED <<world, disk, disk0, locals, tally, history>>

\* lines 23-34
Enumerate ==
  /\ UNCHANGED faults
  /\ pc = "start"
  /\ pathKind = "dir"
  /\ PngFiles(disk) # <<>>
  /\ files' = PngFiles(disk)
  /\ out' = out \cup {"found"}
  /\ has_4k' = FALSE
  /\ i' = 1
  /\ pc' = "check"
  /\ UNCHANGED <<world, disk, disk0, exitCode, response, k, new_size, tally,
                 history>>

(***************************************************************************)
(* Lines 35-49: the 4K check over files[:5].                               *)
(***************************************************************************)
\* where the run goes once the check's loop is over (line 46), and the
\* warning of lines 47-49
AfterCheck(found, printed) ==
  IF found
    THEN pc' = "loop" /\ out' = out \cup printed
    ELSE pc' = "prompt" /\ out' = out \cup printed \cup {"warning"}

\* the loop of line 35 goes on to its next file, or is over
NextSample(found, printed) ==
  /\ i' = i + 1
  /\ IF i + 1 > Len(Sample(files))
       THEN AfterCheck(found, printed)
       ELSE pc' = "check" /\ out' = out \cup printed

\* lines 36-44, one file: a 4K file sets has_4k and breaks, a file that
\* does not open is passed over
CheckFile ==
  /\ UNCHANGED faults
  /\ pc = "check"
  /\ i <= Len(Sample(files))
  /\ LET f == disk[Sample(files)[i]]
     IN  /\ opens' = opens + 1
         /\ sampled' = IF f.ok THEN sampled \cup {i} ELSE sampled
         /\ IF f.ok /\ Is4K(f.w, f.h)
              THEN /\ has_4k' = TRUE
                   /\ i' = i
                   /\ AfterCheck(TRUE, {"found4k"})
              ELSE /\ has_4k' = has_4k
                   /\ NextSample(has_4k, {})
  /\ UNCHANGED <<world, disk, disk0, exitCode, files, response, k, new_size,
                 tally, log, writes, prompts, interrupted, encodeErrors>>

\* lines 43-44: the bare except catches a KeyboardInterrupt raised inside
\* the try block, and the check goes on with its next file
CheckInterrupted ==
  /\ faults < MaxFaults
  /\ faults' = faults + 1
  /\ pc = "check"
  /\ i <= Len(Sample(files))
  /\ interrupted' = TRUE
  /\ opens' = opens + 1
  /\ LET f == disk[Sample(files)[i]]
     IN  \/ \* raised in Image.open(), line 38
            /\ has_4k' = has_4k
            /\ sampled' = sampled
            /\ NextSample(has_4k, {})
         \/ \* raised in the print of line 41: has_4k is set, the break is lost
            /\ f.ok /\ Is4K(f.w, f.h)
            /\ has_4k' = TRUE
            /\ sampled' = sampled \cup {i}
            /\ NextSample(TRUE, {})
  /\ UNCHANGED <<world, disk, disk0, exitCode, files, response, k, new_size,
                 tally, log, writes, prompts, encodeErrors>>

\* lines 50-52
Prompt ==
  /\ UNCHANGED faults
  /\ pc = "prompt"
  /\ \E r \in Responses :
       /\ response' = r
       /\ IF Declines(r)
            THEN Exit(0, {})
            ELSE pc' = "loop" /\ UNCHANGED <<exitCode, out>>
  /\ prompts' = prompts + 1
  /\ UNCHANGED <<world, disk, disk0, files, i, has_4k, k, new_size, tally,
                 log, sampled, opens, writes, interrupted, encodeErrors>>

(***************************************************************************)
(* Lines 58-92: the main loop, one file per step.                          *)
(***************************************************************************)
\* the file the loop is at
Cur == disk[files[k + 1]]

InLoop == pc = "loop" /\ k < Len(files)

\* the loop of line 58 goes on to its next file, or reaches line 94
Advance(outcome) ==
  /\ k' = k + 1
  /\ log' = Append(log, <<k + 1, outcome>>)
  /\ opens' = opens + 1
  /\ pc' = IF k + 1 = Len(files) THEN "summary" ELSE "loop"

\* resize() refuses a size with a zero side: ValueError
Resizable(size) == size[1] >= 1 /\ size[2] >= 1

\* the file as save() leaves it
Saved(f, size) == Entry(f.name, TRUE, size[1], size[2])

\* lines 90-92 with a handler that only passes, as the one of line 44 does
OpenFailsUncounted ==
  /\ UNCHANGED faults
  /\ InLoop
  /\ ~Cur.ok
  /\ Advance("error")
  /\ UNCHANGED <<world, disk, disk0, exitCode, files, i, has_4k, response,
                 new_size, tally, out, sampled, writes, prompts, interrupted,
                 encodeErrors>>

\* line 64 raises, lines 90-92
OpenFails ==
  /\ UNCHANGED faults
  /\ InLoop
  /\ ~Cur.ok
  /\ errors' = errors + 1
  /\ Advance("error")
  /\ UNCHANGED <<world, disk, disk0, exitCode, files, i, has_4k, response,
                 new_size, resized, skipped, out, sampled, writes, prompts,
                 interrupted, encodeErrors>>

\* lines 64-73
Skip ==
  /\ UNCHANGED faults
  /\ InLoop
  /\ Cur.ok
  /\ ~NeedsResize(Cur.w, Cur.h)
  /\ skipped' = skipped + 1
  /\ Advance("skipped")
  /\ UNCHANGED <<world, disk, disk0, exitCode, files, i, has_4k, response,
                 new_size, resized, errors, out, sampled, writes, prompts,
                 interrupted, encodeErrors>>

\* lines 75-82, resize() raises, lines 90-92
ResizeFails ==
  /\ UNCHANGED faults
  /\ InLoop
  /\ Cur.ok
  /\ NeedsResize(Cur.w, Cur.h)
  /\ ~Resizable(NewSize(Cur.w, Cur.h))
  /\ new_size' = NewSize(Cur.w, Cur.h)
  /\ errors' = errors + 1
  /\ Advance("error")
  /\ UNCHANGED <<world, disk, disk0, exitCode, files, i, has_4k, response,
                 resized, skipped, out, sampled, writes, prompts, interrupted,
                 encodeErrors>>

\* lines 75-88
ResizeSave ==
  /\ UNCHANGED faults
  /\ InLoop
  /\ Cur.ok
  /\ NeedsResize(Cur.w, Cur.h)
  /\ Resizable(NewSize(Cur.w, Cur.h))
  /\ new_size' = NewSize(Cur.w, Cur.h)
  /\ disk' = [disk EXCEPT ![files[k + 1]] = Saved(Cur, NewSize(Cur.w, Cur.h))]
  /\ writes' = writes + 1
  /\ resized' = resized + 1
  /\ Advance("resized")
  /\ UNCHANGED <<world, disk0, exitCode, files, i, has_4k, response, skipped,
                 errors, out, sampled, prompts, interrupted, encodeErrors>>

\* lines 75-85, save() raises, lines 90-92: the target is left as it was
\* (it could not be opened for writing) or truncated (the write failed)
SaveFails ==
  /\ faults < MaxFaults
  /\ faults' = faults + 1
  /\ InLoop
  /\ Cur.ok
  /\ NeedsResize(Cur.w, Cur.h)
  /\ Resizable(NewSize(Cur.w, Cur.h))
  /\ new_size' = NewSize(Cur.w, Cur.h)
  /\ \/ disk' = disk
     \/ disk' = [disk EXCEPT ![files[k + 1]] = Entry(Cur.name, FALSE, 0, 0)]
  /\ encodeErrors' = encodeErrors + 1
  /\ errors' = errors + 1
  /\ Advance("error")
  /\ UNCHANGED <<world, disk0, exitCode, files, i, has_4k, response, resized,
                 skipped, out, sampled, writes, prompts, interrupted>>

\* lines 94-100, and the return to the shell with status 0
Summary ==
  /\ UNCHANGED faults
  /\ pc = "summary"
  /\ Exit(0, {"summary"} \cup (IF resized > 0 THEN {"allnow"} ELSE {}))
  /\ UNCHANGED <<world, disk, disk0, locals, tally, history>>

(***************************************************************************)
(* Lines 102-110: a KeyboardInterrupt raised outside the try block of the  *)
(* 4K check is not an Exception, so lines 90-92 let it through to          *)
(* __main__, which prints and exits with status 0.                         *)
(***************************************************************************)
Interrupt ==
  /\ faults < MaxFaults
  /\ faults' = faults + 1
  /\ pc \in {"start", "prompt", "loop", "summary"}
  /\ interrupted' = TRUE
  /\ Exit(0, {"cancelled"})
  /\ UNCHANGED <<world, disk, disk0, locals, tally, log, sampled, opens,
                 writes, prompts, encodeErrors>>

\* the same, raised between save() (line 85) and resized += 1 (line 88)
InterruptAfterSave ==
  /\ faults < MaxFaults
  /\ faults' = faults + 1
  /\ InLoop
  /\ Cur.ok
  /\ NeedsResize(Cur.w, Cur.h)
  /\ Resizable(NewSize(Cur.w, Cur.h))
  /\ new_size' = NewSize(Cur.w, Cur.h)
  /\ disk' = [disk EXCEPT ![files[k + 1]] = Saved(Cur, NewSize(Cur.w, Cur.h))]
  /\ writes' = writes + 1
  /\ opens' = opens + 1
  /\ interrupted' = TRUE
  /\ Exit(0, {"cancelled"})
  /\ UNCHANGED <<world, disk0, files, i, has_4k, response, k, tally, log,
                 sampled, prompts, encodeErrors>>

\* the script is run a second time on the directory the first run left
Restart ==
  /\ pc = "exit"
  /\ run = 1
  /\ run' = 2
  /\ prevClean' = ("summary" \in out /\ errors = 0)
  /\ disk0' = disk
  /\ pc' = "start"
  /\ exitCode' = -1
  /\ files' = <<>>
  /\ i' = 1
  /\ has_4k' = FALSE
  /\ response' = <<>>
  /\ k' = 0
  /\ resized' = 0
  /\ skipped' = 0
  /\ errors' = 0
  /\ new_size' = NoSize
  /\ out' = {}
  /\ log' = <<>>
  /\ sampled' = {}
  /\ opens' = 0
  /\ writes' = 0
  /\ prompts' = 0
  /\ interrupted' = FALSE
  /\ encodeErrors' = 0
  /\ UNCHANGED <<pathKind, disk, faults>>

Next ==
  \/ NotFound
  \/ ListFails
  \/ NoFiles
  \/ Enumerate
  \/ CheckFile
  \/ CheckInterrupted
  \/ Prompt
  \/ OpenFails
  \/ Skip
  \/ ResizeFails
  \/ ResizeSave
  \/ SaveFails
  \/ Summary
  \/ Interrupt
  \/ InterruptAfterSave
  \/ Restart

Spec == Init /\ [][Next]_vars

(***************************************************************************)
(* The resizer on a directory of one decodable image, over a wide range of *)
(* sizes, with an environment that raises nothing: the specification under *)
(* which the arithmetic of lines 68-88 is examined.                        *)
(***************************************************************************)
InitSize ==
  /\ pathKind = "dir"
  /\ disk \in SizeDirs
  /\ disk0 = disk
  /\ run = 1
  /\ prevClean = FALSE
  /\ faults = 0
  /\ Fresh

NextSize ==
  \/ Enumerate
  \/ CheckFile
  \/ Prompt
  \/ Skip
  \/ ResizeFails
  \/ ResizeSave
  \/ Summary

SpecSize == InitSize /\ [][NextSize]_vars

(***************************************************************************)
(* Vocabulary of the properties.                                           *)
(***************************************************************************)
\* the j-th enumerated file as the run found it, and as it is now
Orig(j) == disk0[files[j]]
Now(j) == disk[files[j]]

Outcome(j) == log[j][2]

Count(outcome) == Cardinality({j \in 1..Len(log) : Outcome(j) = outcome})

Answered == prompts = 1
Warned == "warning" \in out
Summarised == "summary" \in out

\* the run ended at line 52
Declined ==
  /\ pc = "exit"
  /\ exitCode = 0
  /\ ~Summarised
  /\ "cancelled" \notin out

\* the run went on to line 54
Continued ==
  \/ pc \in {"loop", "summary"}
  \/ pc = "exit" /\ (Summarised \/ "cancelled" \in out)

Yes == {<<"y">>, <<"Y">>}
No == {<<"n">>, <<"N">>}

Big(e) == e.w >= HiRes \/ e.h >= HiRes
Fits(e) == e.w <= MAX_SIZE /\ e.h <= MAX_SIZE

\* the smaller side of the written file d is the smaller side of the
\* original o scaled by MAX_SIZE / max(o.w, o.h), at most one pixel short
Proportional(o, d) ==
  LET big   == Max(o.w, o.h)
      exact == Min(o.w, o.h) * MAX_SIZE
      got   == Min(d.w, d.h) * big
  IN  got <= exact /\ exact - got <= big

(***************************************************************************)
(* C1 as claimed: after the prompt was answered, the run has ended at the  *)
(* prompt exactly when the answer was 'n' or 'N'; every other answer, the  *)
(* empty one included, continued into the main loop.                       *)
(***************************************************************************)
C1_OnlyNoHalts ==
  Answered => (IF response \in No THEN Declined ELSE Continued)

(***************************************************************************)
(* C1 amended: after the prompt was answered, the run has continued into   *)
(* the main loop exactly when the answer was 'y' or 'Y'; every other       *)
(* answer, the empty one and 'n' included, ended it with status 0.         *)
(***************************************************************************)
C1_OnlyYesContinues ==
  Answered => (IF response \in Yes THEN Continued ELSE Declined)

C1_Witness == Answered /\ response = <<>> /\ Declined

(***************************************************************************)
(* C2: once a KeyboardInterrupt has been raised in a run, the process has  *)
(* exited with status 0.                                                   *)
(***************************************************************************)
C2_InterruptExitsClean ==
  interrupted => (pc = "exit" /\ exitCode = 0)

(***************************************************************************)
(* C3 as claimed: whatever the directory holds, a second run ends with     *)
(* every enumerated file skipped, none resized, none errored and nothing   *)
(* written.                                                                *)
(***************************************************************************)
C3_SecondRunNoOp ==
  (run = 2 /\ pc = "exit") =>
    /\ skipped = Len(PngFiles(disk0))
    /\ resized = 0
    /\ errors = 0
    /\ writes = 0

(***************************************************************************)
(* C3 amended: after a first run that printed its summary with Errors: 0,  *)
(* the second run writes nothing, resizes nothing and errors on nothing;   *)
(* its 4K check finds no 4K file, so it reaches the main loop only through *)
(* the prompt answered 'y' or 'Y', and if it prints its summary every      *)
(* enumerated file is tallied as skipped.                                  *)
(***************************************************************************)
C3_CleanRerunNoOp ==
  (run = 2 /\ prevClean) =>
    /\ writes = 0
    /\ disk = disk0
    /\ resized = 0
    /\ errors = 0
    /\ ~has_4k
    /\ (pc \in {"loop", "summary"} \/ Summarised) =>
         (Answered /\ response \in Yes)
    /\ Summarised => (skipped = Len(PngFiles(disk0)) /\ skipped > 0)

\* the second run has skipped the file the first run made 1024x512
C3_Witness ==
  /\ run = 2
  /\ prevClean
  /\ Summarised
  /\ skipped = Len(files)
  /\ \E j \in 1..Len(files) : Now(j).w = MAX_SIZE /\ Now(j).h = 512

(***************************************************************************)
(* C4: when the summary is printed for a directory with exactly one file   *)
(* that does not decode, and no save() failed, Errors is 1 and every file  *)
(* that decodes was resized if a side exceeds MAX_SIZE and skipped if not. *)
(***************************************************************************)
C4_OneCorruptOneError ==
  ( /\ Summarised
    /\ encodeErrors = 0
    /\ Cardinality({j \in 1..Len(files) : ~Orig(j).ok}) = 1 ) =>
    /\ errors = 1
    /\ \A j \in 1..Len(files) :
         Orig(j).ok =>
           Outcome(j) = (IF Fits(Orig(j)) THEN "skipped" ELSE "resized")

(***************************************************************************)
(* C5: a step of the main loop at a decodable file whose sides are both at *)
(* most MAX_SIZE writes nothing, leaves the directory, resized and errors  *)
(* as they are, and, unless a KeyboardInterrupt ends the run there, moves  *)
(* to the next file with skipped one higher.                               *)
(***************************************************************************)
C5_SkipFrame ==
  [][ (InLoop /\ Cur.ok /\ Fits(Cur)) =>
        /\ disk' = disk
        /\ writes' = writes
        /\ resized' = resized
        /\ errors' = errors
        /\ \/ k' = k + 1 /\ skipped' = skipped + 1
           \/ pc' = "exit" /\ interrupted' /\ skipped' = skipped /\ k' = k
    ]_vars

\* a file with both sides equal to MAX_SIZE has just been skipped
C5_Witness ==
  /\ k >= 1
  /\ Orig(k).ok
  /\ Orig(k).w = MAX_SIZE
  /\ Orig(k).h = MAX_SIZE
  /\ Outcome(k) = "skipped"
  /\ skipped = 1
  /\ Now(k) = Orig(k)

(***************************************************************************)
(* C6 as claimed: every file the main loop has resized has its larger side *)
(* equal to MAX_SIZE and its smaller side within one pixel of the          *)
(* proportional value, and resized counts exactly the files written.       *)
(***************************************************************************)
C6_LargerSideIsMax ==
  /\ resized = writes
  /\ \A j \in 1..Len(log) :
       (Orig(j).ok /\ ~Fits(Orig(j)) /\ Now(j).ok /\ Now(j) # Orig(j)) =>
         /\ Max(Now(j).w, Now(j).h) = MAX_SIZE
         /\ Proportional(Orig(j), Now(j))

(***************************************************************************)
(* C6 amended: every file the main loop has resized has its larger side    *)
(* equal to MAX_SIZE or, where the float product falls just short of it,   *)
(* MAX_SIZE - 1, and its smaller side within one pixel of the proportional *)
(* value; resized counts exactly the files written.                        *)
(***************************************************************************)
C6_LargerSideNearMax ==
  /\ resized = writes
  /\ \A j \in 1..Len(log) :
       (Orig(j).ok /\ ~Fits(Orig(j)) /\ Now(j).ok /\ Now(j) # Orig(j)) =>
         /\ Max(Now(j).w, Now(j).h) \in {MAX_SIZE - 1, MAX_SIZE}
         /\ Proportional(Orig(j), Now(j))

\* 4096x2048 has become 1024x512 and was counted once
C6_Witness ==
  /\ Summarised
  /\ Len(files) = 1
  /\ Orig(1).w = 4096 /\ Orig(1).h = 2048
  /\ Now(1).w = MAX_SIZE /\ Now(1).h = 512
  /\ resized = 1

(***************************************************************************)
(* C7: a run that ended, without a KeyboardInterrupt, on a source path     *)
(* that is missing or no directory, or on a directory with no PNG name,    *)
(* ended with a non-zero status after printing its explanation (and the    *)
(* hint when the path is at fault), having opened no image, prompted for   *)
(* nothing, written nothing and counted nothing.                           *)
(***************************************************************************)
C7_FatalIsExplained ==
  ( /\ pc = "exit"
    /\ ~interrupted
    /\ (pathKind # "dir" \/ PngFiles(disk) = <<>>) ) =>
    /\ exitCode # 0
    /\ out \cap {"notfound", "nofiles"} # {}
    /\ pathKind # "dir" => "hint" \in out
    /\ opens = 0
    /\ prompts = 0
    /\ writes = 0
    /\ resized + skipped + errors = 0

(***************************************************************************)
(* C8: the prompt is issued at most once, only from the end of the 4K      *)
(* check, when the main loop has processed nothing; the check opens only   *)
(* the first min(5, n) files, counts nothing and writes nothing; the       *)
(* prompt is issued exactly when no file the check opened has a side of at *)
(* least 2048 (a file that did not open, or whose open was interrupted,    *)
(* does not count).                                                        *)
(***************************************************************************)
C8_PromptRule ==
  /\ prompts <= 1
  /\ (pc = "prompt" \/ Answered) => Warned
  /\ Warned => (pc = "prompt" \/ Answered \/ (pc = "exit" /\ interrupted))
  /\ sampled \subseteq 1..Min(SampleSize, Len(files))
  /\ pc \in {"check", "prompt"} =>
       /\ prompts = 0
       /\ k = 0
       /\ resized + skipped + errors = 0
       /\ writes = 0
       /\ disk = disk0
  /\ Warned =>
       \A j \in 1..Min(SampleSize, Len(files)) :
         (Orig(j).ok /\ Big(Orig(j))) => (j \notin sampled /\ interrupted)
  /\ ((pc \in {"loop", "summary"} \/ Summarised) /\ ~Warned) =>
       \E j \in sampled : Big(Orig(j))

\* the sixth file is 4K, and the operator was asked all the same
C8_Witness ==
  /\ Answered
  /\ ~interrupted
  /\ Len(files) > SampleSize
  /\ Big(Orig(SampleSize + 1))

(***************************************************************************)
(* C9: the main loop visits the enumerated files once each, in order; each *)
(* visit adds one to exactly one counter, so the counters sum to the       *)
(* number of files visited and, at the summary, to the number of files     *)
(* enumerated; resized counts only files whose save() succeeded.           *)
(***************************************************************************)
C9_Tally ==
  /\ resized + skipped + errors = k
  /\ Len(log) = k
  /\ \A j \in 1..Len(log) : log[j][1] = j
  /\ resized = Count("resized")
  /\ skipped = Count("skipped")
  /\ errors = Count("error")
  /\ resized <= writes
  /\ resized = Cardinality({j \in 1..k : Now(j).ok /\ Now(j) # Orig(j)})
  /\ (pc = "summary" \/ Summarised) =>
       (k = Len(files) /\ Len(files) = Len(PngFiles(disk0)))

\* a summary with one file of each outcome
C9_Witness ==
  /\ Summarised
  /\ resized >= 1
  /\ skipped >= 1
  /\ errors >= 1

(***************************************************************************)
(* C10: the size computed for a decodable image that needs resizing has    *)
(* both sides between 1 and MAX_SIZE.                                      *)
(***************************************************************************)
C10_TargetPositive ==
  new_size # NoSize =>
    /\ new_size[1] \in 1..MAX_SIZE
    /\ new_size[2] \in 1..MAX_SIZE

=============================================================================
